---- MODULE Spec2Model ----
(***************************************************************************)
(* A model of the score board of src/src/lib.rs: the ScoreBoard struct,    *)
(* its three mutating operations start_game, update_score and finish_game, *)
(* the lookups they use, the re-sort that ends each of them, and the       *)
(* get_summary that reads the board out.                                   *)
(***************************************************************************)
EXTENDS Integers, Sequences, FiniteSets, TLC

\* Team names the callers pass in (any ToString value in the code).
Teams == {"A", "B", "C", "D"}

\* Scores the callers pass to update_score: u8 values, some of which add up
\* to more than u8 can hold.
Scores == {0, 200}

\* Number of times the monotonic clock is seen to advance.
MaxClock == 1

\* Number of values of u8, the type of Team::score and of get_total_score.
U8Range == 256

VARIABLES
    data,             \* ScoreBoard::data, the Vec<Game>
    clock,            \* the latest reading of the monotonic clock (Instant)
    overflow_checks,  \* the build: TRUE when integer overflow panics
    panicked,         \* a call has panicked and is unwinding
    issued,           \* every start_time given to a game so far
    last,             \* the latest call: its name, its team names, its result
    before,           \* the board on which the latest start_game began, kept
                      \* through the finish_game of its game that follows it
    abstract_map,     \* the pairs started and not finished by the calls
                      \* that returned Ok, each with its latest scores
    finished          \* the game that the latest call removed, if it was a
                      \* finish_game that found its game

vars ==
    <<data, clock, overflow_checks, panicked, issued, last, before, abstract_map,
      finished>>

----------------------------------------------------------------------------
\* Results: Result<(), String>

Ok == [ok |-> TRUE, err |-> ""]

Err(msg) == [ok |-> FALSE, err |-> msg]

\* The call did not return: it panicked.
Panic == [ok |-> FALSE, err |-> "panic"]

NoIndex == 0

----------------------------------------------------------------------------
\* struct Team, struct Game

Team(name, score) == [name |-> name, score |-> score]

Game(home_team, away_team, start_time) ==
    [home_team |-> home_team, away_team |-> away_team, start_time |-> start_time]

\* Game::get_total_score: a u8 sum. Where the sum does not fit, a build with
\* overflow checks panics and a build without them wraps around.
Overflows(game) == game.home_team.score + game.away_team.score >= U8Range

get_total_score(game) ==
    (game.home_team.score + game.away_team.score) % U8Range

----------------------------------------------------------------------------
\* Lookups

\* find_game_index_of_team as it would be if the loop returned at its first
\* game, found or not.
find_game_index_of_first_game(d, team_name) ==
    IF d # <<>> /\ (d[1].home_team.name = team_name
                    \/ d[1].away_team.name = team_name)
    THEN 1
    ELSE NoIndex

\* The 1-based position of the first game that team_name plays in, in
\* either slot, or NoIndex.
find_game_index_of_team(d, team_name) ==
    LET hits == {i \in 1..Len(d) : d[i].home_team.name = team_name
                                   \/ d[i].away_team.name = team_name}
    IN  IF hits = {} THEN NoIndex
        ELSE CHOOSE i \in hits : \A j \in hits : i <= j

\* find_game_index as it would be if a game of the two teams in swapped
\* roles were accepted too.
find_game_index_any_role(d, home_name, away_name) ==
    LET game_index == find_game_index_of_team(d, home_name)
    IN  IF game_index = NoIndex THEN NoIndex
        ELSE IF {d[game_index].home_team.name, d[game_index].away_team.name}
                    = {home_name, away_name}
             THEN game_index
             ELSE NoIndex

\* find_game_index as it would be if the away slot were not compared.
find_game_index_home_only(d, home_name, away_name) ==
    LET game_index == find_game_index_of_team(d, home_name)
    IN  IF game_index = NoIndex THEN NoIndex
        ELSE IF d[game_index].home_team.name = home_name
             THEN game_index
             ELSE NoIndex

find_game_index(d, home_name, away_name) ==
    LET game_index == find_game_index_of_team(d, home_name)
    IN  IF game_index = NoIndex THEN NoIndex
        ELSE IF d[game_index].home_team.name = home_name
                /\ d[game_index].away_team.name = away_name
             THEN game_index
             ELSE NoIndex

\* check_if_currently_playing as it would be if only the first name were
\* searched for.
check_first_name_only(d, name_1, name_2) ==
    IF find_game_index_of_team(d, name_1) # NoIndex
    THEN Err(name_1 \o " is currently playing a game")
    ELSE Ok

\* check_if_currently_playing as it would be if the second name were
\* searched for first.
check_second_name_first(d, name_1, name_2) ==
    IF find_game_index_of_team(d, name_2) # NoIndex
    THEN Err(name_2 \o " is currently playing a game")
    ELSE IF find_game_index_of_team(d, name_1) # NoIndex
         THEN Err(name_1 \o " is currently playing a game")
         ELSE Ok

check_if_currently_playing(d, name_1, name_2) ==
    IF find_game_index_of_team(d, name_1) # NoIndex
    THEN Err(name_1 \o " is currently playing a game")
    ELSE IF find_game_index_of_team(d, name_2) # NoIndex
         THEN Err(name_2 \o " is currently playing a game")
         ELSE Ok

----------------------------------------------------------------------------
\* Sorting

\* The closure as the doc comment of sort describes it: among equal totals
\* the game that started earlier comes first.
Compare_earliest_first(a, b) ==
    IF get_total_score(a) < get_total_score(b) THEN "Greater"
    ELSE IF get_total_score(a) > get_total_score(b) THEN "Less"
    ELSE IF a.start_time < b.start_time THEN "Less"
    ELSE IF a.start_time > b.start_time THEN "Greater"
    ELSE "Equal"

\* The closure given to sort_by.
Compare(a, b) ==
    IF get_total_score(a) < get_total_score(b) THEN "Greater"
    ELSE IF get_total_score(a) > get_total_score(b) THEN "Less"
    ELSE IF a.start_time < b.start_time THEN "Greater"
    ELSE IF a.start_time > b.start_time THEN "Less"
    ELSE "Equal"

\* The insertion as it would be under an unstable sort: g goes before the
\* elements that compare equal to it.
RECURSIVE InsertBeforeEquals(_, _)
InsertBeforeEquals(s, g) ==
    IF s = <<>> THEN <<g>>
    ELSE IF Compare(Head(s), g) # "Less" THEN <<g>> \o s
         ELSE <<Head(s)>> \o InsertBeforeEquals(Tail(s), g)

\* slice::sort_by is a stable sort: g goes after every element that is not
\* greater than it.
RECURSIVE InsertSorted(_, _)
InsertSorted(s, g) ==
    IF s = <<>> THEN <<g>>
    ELSE IF Compare(Head(s), g) = "Greater" THEN <<g>> \o s
         ELSE <<Head(s)>> \o InsertSorted(Tail(s), g)

RECURSIVE sort_by(_)
sort_by(d) ==
    IF d = <<>> THEN <<>>
    ELSE InsertSorted(sort_by(SubSeq(d, 1, Len(d) - 1)), d[Len(d)])

\* sort_by compares every element of a slice of two or more, so the sort
\* panics when overflow is checked and some total does not fit.
SortPanics(d) ==
    /\ overflow_checks
    /\ Len(d) >= 2
    /\ \E i \in 1..Len(d) : Overflows(d[i])

\* After a panic in the closure the slice holds its elements in some order.
Arrangements(d) ==
    {[i \in 1..Len(d) |-> d[p[i]]] : p \in Permutations(1..Len(d))}

\* ScoreBoard::sort, as the last step of a call that returns result.
sort(d, call) ==
    IF SortPanics(d)
    THEN /\ data' \in Arrangements(d)
         /\ panicked' = TRUE
         /\ last' = [call EXCEPT !.result = Panic]
    ELSE /\ data' = sort_by(d)
         /\ panicked' = FALSE
         /\ last' = [call EXCEPT !.result = Ok]

----------------------------------------------------------------------------
\* The calls

Call(op, home, away) ==
    [op |-> op, home |-> home, away |-> away, result |-> Ok, summary |-> <<>>]

\* The abstract map is a set of entries, one for a pair of names.
Entry(home_name, home_score, away_name, away_score) ==
    [home |-> home_name, home_score |-> home_score,
     away |-> away_name, away_score |-> away_score]

EntriesOf(m, home_name, away_name) ==
    {e \in m : e.home = home_name /\ e.away = away_name}

\* What a call that returned Ok does to the abstract map: start_game puts
\* the pair in at 0 - 0, update_score sets the scores of a pair that is in,
\* finish_game takes the pair out.
MapStart(m, home_name, away_name) ==
    (m \ EntriesOf(m, home_name, away_name))
        \cup {Entry(home_name, 0, away_name, 0)}

MapUpdate(m, home_name, new_home_score, away_name, new_away_score) ==
    IF EntriesOf(m, home_name, away_name) = {} THEN m
    ELSE (m \ EntriesOf(m, home_name, away_name))
             \cup {Entry(home_name, new_home_score, away_name, new_away_score)}

MapFinish(m, home_name, away_name) == m \ EntriesOf(m, home_name, away_name)

\* Instant::now(): never earlier than an earlier reading, and not always
\* later. Once it has advanced MaxClock times it is read as standing still.
Now == {t \in clock..(clock + 1) : t <= MaxClock}

Init ==
    /\ data = <<>>
    /\ clock = 0
    /\ overflow_checks \in BOOLEAN
    /\ panicked = FALSE
    /\ issued = {}
    /\ last = Call("new", "", "")
    /\ before = <<>>
    /\ abstract_map = {}
    /\ finished = <<>>

\* start_game's early returns as they would be if the board were searched
\* before the names are compared.
start_game_checks_board_first(d, home_name, away_name) ==
    LET busy == check_if_currently_playing(d, home_name, away_name)
    IN  IF ~busy.ok THEN busy
        ELSE IF home_name = away_name
             THEN Err(home_name \o " cannot play with itself")
             ELSE Ok

\* start_game's early returns as they would be without the comparison of
\* the two names.
start_game_checks_board_only(d, home_name, away_name) ==
    check_if_currently_playing(d, home_name, away_name)

\* The two early returns of start_game: the names are compared first, the
\* board is searched second.
start_game_checks(d, home_name, away_name) ==
    IF home_name = away_name
    THEN Err(home_name \o " cannot play with itself")
    ELSE check_if_currently_playing(d, home_name, away_name)

\* The pushed Game as it would be if the home name were used for both teams.
new_game_home_twice(home_name, away_name, now) ==
    Game(Team(home_name, 0), Team(home_name, 0), now)

\* The Game that start_game pushes: both scores 0, started now.
new_game(home_name, away_name, now) ==
    Game(Team(home_name, 0), Team(away_name, 0), now)

start_game(home_name, away_name) ==
    LET call == Call("start_game", home_name, away_name)
        checked == start_game_checks(data, home_name, away_name)
    IN  /\ ~panicked
        /\ IF ~checked.ok
           THEN /\ last' = [call EXCEPT !.result = checked]
                /\ before' = <<>>
                /\ UNCHANGED <<data, clock, panicked, issued, abstract_map>>
           ELSE \E now \in Now :
                /\ clock' = now
                /\ issued' = issued \cup {now}
                /\ before' = data
                /\ sort(Append(data, new_game(home_name, away_name, now)),
                        call)
                /\ abstract_map' =
                       IF last'.result.ok
                       THEN MapStart(abstract_map, home_name, away_name)
                       ELSE abstract_map
        /\ finished' = <<>>
        /\ UNCHANGED overflow_checks

\* The Game of update_score as it would be if the scores it was given were
\* added to the scores of game.
new_game_result_added(game, home_name, new_home_score, away_name, new_away_score) ==
    Game(Team(home_name, game.home_team.score + new_home_score),
         Team(away_name, game.away_team.score + new_away_score),
         game.start_time)

\* The Game that update_score puts in the place of game: the names and
\* scores it was given, the start time of game.
new_game_result(game, home_name, new_home_score, away_name, new_away_score) ==
    Game(Team(home_name, new_home_score), Team(away_name, new_away_score),
         game.start_time)

\* update_score as it would be if the new Game were written over the first
\* game of the board, whichever game was found.
update_score_at_front(home_name, new_home_score, away_name, new_away_score) ==
    LET call == Call("update_score", home_name, away_name)
        game_index == find_game_index(data, home_name, away_name)
    IN  /\ ~panicked
        /\ IF game_index # NoIndex
           THEN sort([data EXCEPT ![1] =
                        new_game_result(data[game_index],
                                        home_name, new_home_score,
                                        away_name, new_away_score)], call)
           ELSE /\ last' = [call EXCEPT
                       !.result = Err("Couldn't find a game for update")]
                /\ UNCHANGED <<data, panicked>>
        /\ abstract_map' =
               IF last'.result.ok
               THEN MapUpdate(abstract_map, home_name, new_home_score,
                              away_name, new_away_score)
               ELSE abstract_map
        /\ before' = <<>>
        /\ finished' = <<>>
        /\ UNCHANGED <<clock, overflow_checks, issued>>

update_score(home_name, new_home_score, away_name, new_away_score) ==
    LET call == Call("update_score", home_name, away_name)
        game_index == find_game_index(data, home_name, away_name)
    IN  /\ ~panicked
        /\ IF game_index # NoIndex
           THEN sort([data EXCEPT ![game_index] =
                        new_game_result(data[game_index],
                                        home_name, new_home_score,
                                        away_name, new_away_score)], call)
           ELSE /\ last' = [call EXCEPT
                       !.result = Err("Couldn't find a game for update")]
                /\ UNCHANGED <<data, panicked>>
        /\ abstract_map' =
               IF last'.result.ok
               THEN MapUpdate(abstract_map, home_name, new_home_score,
                              away_name, new_away_score)
               ELSE abstract_map
        /\ before' = <<>>
        /\ finished' = <<>>
        /\ UNCHANGED <<clock, overflow_checks, issued>>

\* Vec::pop in the place of Vec::remove: the last element goes, whatever
\* index is.
remove_last(d, index) == SubSeq(d, 1, Len(d) - 1)

\* Vec::swap_remove in the place of Vec::remove: the last element takes the
\* place of the one at index.
swap_remove(d, index) ==
    IF index = Len(d) THEN SubSeq(d, 1, Len(d) - 1)
    ELSE [i \in 1..(Len(d) - 1) |-> IF i = index THEN d[Len(d)] ELSE d[i]]

\* Vec::remove: the element at index goes, the later ones shift down.
remove(d, index) == SubSeq(d, 1, index - 1) \o SubSeq(d, index + 1, Len(d))

\* finish_game as it would be if the game of the home team were removed
\* before the two slots are compared.
finish_game_removes_first(home_name, away_name) ==
    LET call == Call("finish_game", home_name, away_name)
        started_just_before ==
            /\ last.op = "start_game" /\ last.result.ok
            /\ last.home = home_name /\ last.away = away_name
        team_index == find_game_index_of_team(data, home_name)
        game_index == find_game_index(data, home_name, away_name)
    IN  /\ ~panicked
        /\ IF game_index # NoIndex
           THEN sort(remove(data, game_index), call)
           ELSE /\ last' = [call EXCEPT
                       !.result = Err("Couldn't find a game for removal")]
                /\ data' = IF team_index = NoIndex THEN data
                           ELSE remove(data, team_index)
                /\ UNCHANGED panicked
        /\ abstract_map' =
               IF last'.result.ok
               THEN MapFinish(abstract_map, home_name, away_name)
               ELSE abstract_map
        /\ before' = IF started_just_before THEN before ELSE <<>>
        /\ finished' = IF game_index # NoIndex THEN <<data[game_index]>>
                       ELSE <<>>
        /\ UNCHANGED <<clock, overflow_checks, issued>>

finish_game(home_name, away_name) ==
    LET call == Call("finish_game", home_name, away_name)
        started_just_before ==
            /\ last.op = "start_game" /\ last.result.ok
            /\ last.home = home_name /\ last.away = away_name
        game_index == find_game_index(data, home_name, away_name)
    IN  /\ ~panicked
        /\ IF game_index # NoIndex
           THEN sort(remove(data, game_index), call)
           ELSE /\ last' = [call EXCEPT
                       !.result = Err("Couldn't find a game for removal")]
                /\ UNCHANGED <<data, panicked>>
        /\ abstract_map' =
               IF last'.result.ok
               THEN MapFinish(abstract_map, home_name, away_name)
               ELSE abstract_map
        /\ before' = IF started_just_before THEN before ELSE <<>>
        /\ finished' = IF game_index # NoIndex THEN <<data[game_index]>>
                       ELSE <<>>
        /\ UNCHANGED <<clock, overflow_checks, issued>>

\* u8::to_string: the decimal digits, most significant first, no padding.
Digits == <<"0", "1", "2", "3", "4", "5", "6", "7", "8", "9">>

RECURSIVE to_string(_)
to_string(n) ==
    IF n < 10 THEN Digits[n + 1]
    ELSE to_string(n \div 10) \o Digits[(n % 10) + 1]

\* impl Display for Team
team_fmt(team) == team.name \o " " \o to_string(team.score)

\* Display for Game as it would be if the home team were written twice.
game_fmt_home_twice(game) ==
    team_fmt(game.home_team) \o " - " \o team_fmt(game.home_team)

\* impl Display for Game
game_fmt(game) == team_fmt(game.home_team) \o " - " \o team_fmt(game.away_team)

\* get_summary as it would be if it drained data while reading it.
get_summary_draining ==
    /\ ~panicked
    /\ last' = [Call("get_summary", "", "") EXCEPT
                   !.summary = [i \in 1..Len(data) |-> game_fmt(data[i])]]
    /\ data' = <<>>
    /\ before' = <<>>
    /\ finished' = <<>>
    /\ UNCHANGED <<clock, overflow_checks, panicked, issued, abstract_map>>

\* get_summary takes &self: it pushes one string per game, in the order of
\* data, and returns them.
get_summary ==
    /\ ~panicked
    /\ last' = [Call("get_summary", "", "") EXCEPT
                   !.summary = [i \in 1..Len(data) |-> game_fmt(data[i])]]
    /\ before' = <<>>
    /\ finished' = <<>>
    /\ UNCHANGED <<data, clock, overflow_checks, panicked, issued, abstract_map>>

Next ==
    \/ \E h \in Teams, a \in Teams : start_game(h, a)
    \/ \E h \in Teams, a \in Teams, hs \in Scores, as \in Scores :
           update_score(h, hs, a, as)
    \/ \E h \in Teams, a \in Teams : finish_game(h, a)
    \/ get_summary

Spec == Init /\ [][Next]_vars

\* A board of up to three games at once: six team names, and callers that
\* name them by these fixtures, one of which shares a team with two others.
Fixtures == {<<"A", "B">>, <<"C", "D">>, <<"E", "F">>, <<"F", "A">>}

NextThreeGames ==
    \/ \E f \in Fixtures : start_game(f[1], f[2])
    \/ \E f \in Fixtures, hs \in Scores, as \in Scores :
           update_score(f[1], hs, f[2], as)
    \/ \E f \in Fixtures : finish_game(f[1], f[2])
    \/ get_summary

SpecThreeGames == Init /\ [][NextThreeGames]_vars

----------------------------------------------------------------------------
\* Vocabulary of the properties

\* The game involves the team, as home or as away.
Involves(game, team_name) ==
    game.home_team.name = team_name \/ game.away_team.name = team_name

\* The team is in some game of the board.
Playing(d, team_name) == \E i \in 1..Len(d) : Involves(d[i], team_name)

\* The board holds a game with exactly this home and this away team.
HasGame(d, home_name, away_name) ==
    \E i \in 1..Len(d) : /\ d[i].home_team.name = home_name
                         /\ d[i].away_team.name = away_name

\* The combined score as a number, whatever u8 makes of it.
CombinedScore(game) == game.home_team.score + game.away_team.score

\* The games of the board, in no order.
Games(d) == {d[i] : i \in 1..Len(d)}

\* The call returned one of the error values.
ReturnedError(call) == ~call.result.ok /\ call.result # Panic

BusyError(team_name) == Err(team_name \o " is currently playing a game")

SelfPlayError(team_name) == Err(team_name \o " cannot play with itself")

UpdateError == Err("Couldn't find a game for update")

RemovalError == Err("Couldn't find a game for removal")

----------------------------------------------------------------------------
\* C1: no team name occurs in more than one game of the board, in either
\* slot, after any sequence of calls.
NoTeamInTwoGames ==
    \A i, j \in 1..Len(data) :
        i # j => \A t \in Teams : ~(Involves(data[i], t) /\ Involves(data[j], t))

\* C1: a start_game was refused because its away team is in the game on
\* the board, its home team being free.
NoTeamInTwoGamesWitness ==
    /\ Len(data) = 1
    /\ last.op = "start_game"
    /\ ~Playing(data, last.home)
    /\ last.result = BusyError(last.away)

\* C2: after every returned call the stored sequence is non-increasing in
\* the combined score home.score + away.score.
SortedByCombinedScore ==
    ~panicked =>
        \A i \in 1..(Len(data) - 1) :
            CombinedScore(data[i]) >= CombinedScore(data[i + 1])

\* C3: a game that start_game has just added, 0-0, stands before every
\* older game whose combined score is also 0.
NewGameBeforeOlderTies ==
    [][(last'.op = "start_game" /\ last'.result.ok) =>
          \A i, j \in 1..Len(data') :
              (/\ data'[i].home_team.name = last'.home
               /\ j # i
               /\ CombinedScore(data'[j]) = 0) => i < j]_vars

\* C4: a call that returns an error leaves the board as it was: the same
\* games with the same scores and start times in the same order.
ErrorLeavesBoardUnchanged ==
    [][ReturnedError(last') => data' = data]_vars

\* C4: each of the three calls can be the one that returned an error on a
\* board of two games; here it is update_score, given the teams of a game
\* in swapped roles.
ErrorLeavesBoardUnchangedWitness ==
    /\ Len(data) = 2
    /\ last.op = "update_score"
    /\ ReturnedError(last)
    /\ HasGame(data, last.away, last.home)

\* C5: start_game(h, a), h # a, returns the busy error exactly when h or a
\* is in a game; the error names h when h is busy, and a only when h is
\* free and a is busy.
BusyErrorNamesFirstBusyTeam ==
    [][(last'.op = "start_game" /\ last'.home # last'.away) =>
          /\ Playing(data, last'.home) =>
                 last'.result = BusyError(last'.home)
          /\ (~Playing(data, last'.home) /\ Playing(data, last'.away)) =>
                 last'.result = BusyError(last'.away)
          /\ (~Playing(data, last'.home) /\ ~Playing(data, last'.away)) =>
                 \A t \in Teams : last'.result # BusyError(t)]_vars

\* C5: start_game was given two teams of two different games, both busy,
\* and named the home team.
BusyErrorNamesFirstBusyTeamWitness ==
    /\ Len(data) = 2
    /\ last.op = "start_game"
    /\ Involves(data[2], last.home)
    /\ Involves(data[1], last.away)
    /\ last.result = BusyError(last.home)

\* C6: start_game(x, x) returns "x cannot play with itself" and adds no
\* game, whatever the board holds, also when x is playing.
SelfPlayAlwaysRejected ==
    [][(last'.op = "start_game" /\ last'.home = last'.away) =>
          /\ last'.result = SelfPlayError(last'.home)
          /\ data' = data]_vars

\* C6: a team that is playing was refused a game with itself.
SelfPlayAlwaysRejectedWitness ==
    /\ last.op = "start_game"
    /\ last.home = last.away
    /\ Playing(data, last.home)
    /\ last.result = SelfPlayError(last.home)

\* C7: update_score(h, sh, a, sa) returns "Couldn't find a game for update"
\* and changes nothing whenever no game has home h and away a, the
\* role-swapped pair included.
UpdateOfMissingPairFails ==
    [][(last'.op = "update_score"
        /\ ~HasGame(data, last'.home, last'.away)) =>
          /\ last'.result = UpdateError
          /\ data' = data]_vars

\* C7: update_score was refused for a home team that is the home team of a
\* game, given with the away team of another game.
UpdateOfMissingPairFailsWitness ==
    /\ last.op = "update_score"
    /\ last.result = UpdateError
    /\ \E i, j \in 1..Len(data) :
          /\ i # j
          /\ data[i].home_team.name = last.home
          /\ data[j].away_team.name = last.away

\* C8: finish_game(h, a) returns "Couldn't find a game for removal" and
\* removes nothing whenever no game has home h and away a.
FinishOfMissingPairFails ==
    [][(last'.op = "finish_game"
        /\ ~HasGame(data, last'.home, last'.away)) =>
          /\ last'.result = RemovalError
          /\ data' = data]_vars

\* C8: finish_game was refused for the two teams of a game in swapped
\* roles.
FinishOfMissingPairFailsWitness ==
    /\ last.op = "finish_game"
    /\ last.result = RemovalError
    /\ HasGame(data, last.away, last.home)

\* C9: a successful start_game(h, a) adds one game, h 0 - a 0, and keeps
\* every game that was on the board, names, scores and start time.
StartAddsOneScorelessGame ==
    [][(last'.op = "start_game" /\ last'.result.ok) =>
          /\ Len(data') = Len(data) + 1
          /\ \E i \in 1..Len(data') :
                /\ data'[i].home_team = Team(last'.home, 0)
                /\ data'[i].away_team = Team(last'.away, 0)
                /\ {data'[j] : j \in 1..Len(data') \ {i}} = Games(data)
          /\ Cardinality(Games(data)) = Len(data)]_vars

\* C9: a second game was started next to one that has a score.
StartAddsOneScorelessGameWitness ==
    /\ Len(data) = 2
    /\ last.op = "start_game"
    /\ last.result = Ok
    /\ \E i \in 1..2 : CombinedScore(data[i]) > 0

\* C10: the start time a successful start_game gives its game is later
\* than every start time given before, those of finished games included.
StartTimeStrictlyFresh ==
    [][(last'.op = "start_game" /\ last'.result.ok) =>
          \A i \in 1..Len(data') :
              data'[i].home_team.name = last'.home =>
                  \A m \in issued : data'[i].start_time > m]_vars

\* The game of the board with this home and this away team.
TheGame(d, home_name, away_name) ==
    d[CHOOSE i \in 1..Len(d) : /\ d[i].home_team.name = home_name
                               /\ d[i].away_team.name = away_name]

\* C11: a successful update_score(h, sh, a, sa) leaves the game of h and a
\* with home score sh and away score sa, whatever its scores were, and with
\* the names and the start time it had.
UpdateSetsAbsoluteScores ==
    [][(last'.op = "update_score" /\ last'.result.ok) =>
          \A sh, sa \in Scores :
              update_score(last'.home, sh, last'.away, sa) =>
                  /\ HasGame(data', last'.home, last'.away)
                  /\ TheGame(data', last'.home, last'.away) =
                         Game(Team(last'.home, sh), Team(last'.away, sa),
                              TheGame(data, last'.home, last'.away).start_time)
         ]_vars

\* C11: an update_score has just brought a home score down to 0 while the
\* other game of the board has a score.
UpdateSetsAbsoluteScoresWitness ==
    /\ Len(data) = 2
    /\ last.op = "update_score"
    /\ last.result = Ok
    /\ TheGame(data, last.home, last.away).home_team.score = 0
    /\ TheGame(data, last.home, last.away).away_team.score = 200
    /\ CombinedScore(data[1]) = 200
    /\ CombinedScore(data[2]) = 200

\* C12: a successful finish_game(h, a) takes the game of h and a out of
\* the sequence and nothing else: one game fewer, the others as they were
\* and in the order they were in.
FinishRemovesOnlyThatGame ==
    [][(last'.op = "finish_game" /\ last'.result.ok) =>
          \E i \in 1..Len(data) :
              /\ data[i].home_team.name = last'.home
              /\ data[i].away_team.name = last'.away
              /\ Len(data') = Len(data) - 1
              /\ \A k \in 1..Len(data') :
                     data'[k] = IF k < i THEN data[k] ELSE data[k + 1]]_vars

\* C12: the first of three games was finished and the two that remain are
\* equal on both keys of the sort, so only the removal decides their order.
FinishRemovesOnlyThatGameWitness ==
    /\ last.op = "finish_game"
    /\ last.result = Ok
    /\ Len(data) = 2
    /\ Compare(data[1], data[2]) = "Equal"
    /\ Playing(data, "C") /\ Playing(data, "E")

\* C13: a finish_game(A, B) that follows right after a successful
\* start_game(A, B) succeeds and leaves the board that start_game began on:
\* the same games with the same scores in the same order.
StartThenFinishRestoresBoard ==
    [][(/\ last.op = "start_game" /\ last.result.ok
        /\ last'.op = "finish_game"
        /\ last'.home = last.home /\ last'.away = last.away) =>
          /\ last'.result = Ok
          /\ data' = before]_vars

\* C13: a third game was started next to two games, one of them with a
\* score, and finished right away.
StartThenFinishRestoresBoardWitness ==
    /\ last.op = "finish_game"
    /\ last.result = Ok
    /\ Len(before) = 2
    /\ data = before
    /\ CombinedScore(data[1]) > 0

\* The pairs of home and away name that have a game on the board.
Pairs(d) == {<<d[i].home_team.name, d[i].away_team.name>> : i \in 1..Len(d)}

\* C14: a successful finish_game(h, a) leaves no game of h and a; such a
\* game comes to the board only by a successful start_game(h, a) and leaves
\* it only by a successful finish_game(h, a); and while there is none,
\* update_score and finish_game of the pair return their errors.
FinishedStaysFinished ==
    [][/\ (last'.op = "finish_game" /\ last'.result.ok) =>
              ~HasGame(data', last'.home, last'.away)
       /\ data' # data =>
              /\ (Pairs(data') \ Pairs(data) # {} /\ ~panicked') =>
                     /\ last'.op = "start_game" /\ last'.result.ok
                     /\ Pairs(data') \ Pairs(data) =
                            {<<last'.home, last'.away>>}
              /\ Pairs(data) \ Pairs(data') # {} =>
                     /\ last'.op = "finish_game" /\ last'.result.ok
                     /\ Pairs(data) \ Pairs(data') =
                            {<<last'.home, last'.away>>}
       /\ (last'.op = "update_score"
           /\ ~HasGame(data, last'.home, last'.away)) =>
              last'.result = UpdateError
       /\ (last'.op = "finish_game"
           /\ ~HasGame(data, last'.home, last'.away)) =>
              last'.result = RemovalError]_vars

\* C14: a game was started and finished, the board is empty again, and an
\* update_score was refused.
FinishedStaysFinishedWitness ==
    /\ issued # {}
    /\ data = <<>>
    /\ last.op = "update_score"
    /\ last.result = UpdateError

\* C15: the total that the sort compares is the sum home.score +
\* away.score of every game of the board.
TotalScoreIsTheSum ==
    \A i \in 1..Len(data) : get_total_score(data[i]) = CombinedScore(data[i])

\* C16: no call panics: every start_game, update_score, finish_game and
\* get_summary returns.
NoCallPanics == ~panicked

\* The decimal text of the scores that update_score is given here.
ScoreText(score) == CASE score = 0 -> "0" [] score = 200 -> "200"

\* The line of the summary for a game.
SummaryLine(game) ==
    game.home_team.name \o " " \o ScoreText(game.home_team.score) \o " - "
    \o game.away_team.name \o " " \o ScoreText(game.away_team.score)

\* C17: get_summary returns one string per game, in the order of the
\* board, "{home.name} {home.score} - {away.name} {away.score}", and no
\* string exactly when the board is empty.
SummaryListsTheBoard ==
    last.op = "get_summary" =>
        /\ Len(last.summary) = Len(data)
        /\ \A i \in 1..Len(data) : last.summary[i] = SummaryLine(data[i])
        /\ (last.summary = <<>>) <=> (data = <<>>)

\* C17: get_summary returned the two lines of a board whose first game has
\* scores 200 and 0.
SummaryListsTheBoardWitness ==
    /\ last.op = "get_summary"
    /\ Len(last.summary) = 2
    /\ data[1].home_team.score = 200
    /\ data[1].away_team.score = 0

\* C18: get_summary changes nothing of the board, and a get_summary right
\* after a get_summary returns the same strings.
SummaryIsAPureRead ==
    [][last'.op = "get_summary" =>
          /\ data' = data
          /\ clock' = clock
          /\ issued' = issued
          /\ panicked' = panicked
          /\ last.op = "get_summary" => last'.summary = last.summary]_vars

\* C18: get_summary was called on a board of two games.
SummaryIsAPureReadWitness ==
    /\ last.op = "get_summary"
    /\ Len(data) = 2
    /\ Len(last.summary) = 2

\* C19: the home team of every game of the board has another name than its
\* away team.
HomeDiffersFromAway ==
    \A i \in 1..Len(data) : data[i].home_team.name # data[i].away_team.name

\* C19: with two games on the board, a team was refused a game with
\* itself.
HomeDiffersFromAwayWitness ==
    /\ Len(data) = 2
    /\ last.op = "start_game"
    /\ last.result = SelfPlayError(last.home)

PositionOf(d, home_name) ==
    CHOOSE i \in 1..Len(d) : d[i].home_team.name = home_name

\* The home names of the games of the board.
Homes(d) == {d[i].home_team.name : i \in 1..Len(d)}

\* The two games have the same combined score and the same start time.
EqualOnBothKeys(a, b) ==
    CombinedScore(a) = CombinedScore(b) /\ a.start_time = b.start_time

\* C21: the re-sort that ends a returned start_game, update_score or
\* finish_game is stable: two games that are on the board before and after
\* the call and are equal on both keys after it are in the order they were
\* in before it; a call that changes no key changes no position.
ResortIsStable ==
    [][(last'.op \in {"start_game", "update_score", "finish_game"}
        /\ last'.result.ok) =>
          /\ \A x, y \in Homes(data) \cap Homes(data') :
                 (/\ EqualOnBothKeys(data'[PositionOf(data', x)],
                                     data'[PositionOf(data', y)])
                  /\ PositionOf(data, x) < PositionOf(data, y)) =>
                     PositionOf(data', x) < PositionOf(data', y)
          /\ (last'.op = "update_score" /\ Games(data') = Games(data)) =>
                 data' = data]_vars

\* C21: three games that are equal on both keys, and an update_score that
\* gave one of them the scores it had.
ResortIsStableWitness ==
    /\ Len(data) = 3
    /\ EqualOnBothKeys(data[1], data[2])
    /\ EqualOnBothKeys(data[2], data[3])
    /\ last.op = "update_score"
    /\ last.result = Ok
    /\ last.home = data[2].home_team.name

OtherGames(d, home_name, away_name) ==
    {d[i] : i \in {j \in 1..Len(d) : ~(/\ d[j].home_team.name = home_name
                                       /\ d[j].away_team.name = away_name)}}

\* C23: a successful update_score(h, sh, a, sa) leaves the number of games
\* as it was and every game other than the game of h and a with the names,
\* the two scores and the start time it had; only positions may change.
UpdateChangesOnlyItsGame ==
    [][(last'.op = "update_score" /\ last'.result.ok) =>
          /\ Len(data') = Len(data)
          /\ Pairs(data') = Pairs(data)
          /\ OtherGames(data', last'.home, last'.away) =
                 OtherGames(data, last'.home, last'.away)
          /\ Cardinality(OtherGames(data, last'.home, last'.away)) =
                 Len(data) - 1]_vars

\* C23: an update_score has taken the score of one of three games back to
\* 0 - 0 while the two other games have their scores.
UpdateChangesOnlyItsGameWitness ==
    /\ Len(data) = 3
    /\ last.op = "update_score"
    /\ last.result = Ok
    /\ CombinedScore(TheGame(data, last.home, last.away)) = 0
    /\ \A g \in OtherGames(data, last.home, last.away) : CombinedScore(g) = 200
    /\ data[3].home_team.name = last.home

\* The board read as a map: the entry of every game.
BoardAsMap(d) ==
    {Entry(d[i].home_team.name, d[i].home_team.score,
           d[i].away_team.name, d[i].away_team.score) : i \in 1..Len(d)}

\* C24: after any sequence of returned calls the board is the abstract
\* map: its pairs are the pairs whose latest successful start_game has no
\* successful finish_game after it, each with the scores of its latest
\* successful update_score since, or 0 - 0, and with one game for a pair.
BoardMatchesAbstractMap ==
    ~panicked =>
        /\ BoardAsMap(data) = abstract_map
        /\ Cardinality(abstract_map) = Len(data)

\* C24: a game that started earlier has been finished, the two games of
\* the board started after it, and an update_score has given one of them a
\* score.
BoardMatchesAbstractMapWitness ==
    /\ Len(data) = 2
    /\ 0 \in issued
    /\ data[1].start_time = 1
    /\ data[2].start_time = 1
    /\ last.op = "update_score"
    /\ last.result = Ok
    /\ CombinedScore(data[1]) = 200
    /\ CombinedScore(data[2]) = 0

\* C25: right after a finish_game that returned Ok, start_game of any two
\* different names that are in no game of the board returns Ok, the names
\* of the finished game among them in either role, and its game stands at
\* 0 - 0 with a start time that is not the start time of the finished game.
FinishFreesBothTeams ==
    [][(/\ finished # <<>>
        /\ last.result.ok
        /\ last'.op = "start_game"
        /\ last'.home # last'.away
        /\ ~Playing(data, last'.home)
        /\ ~Playing(data, last'.away)) =>
          /\ last'.result = Ok
          /\ HasGame(data', last'.home, last'.away)
          /\ LET game == TheGame(data', last'.home, last'.away)
             IN  /\ game.home_team.score = 0
                 /\ game.away_team.score = 0
                 /\ game.start_time # finished[1].start_time]_vars

====
